---- MODULE Spec2Model ----
EXTENDS Integers, Sequences, FiniteSets, TLC

\* ---------------------------------------------------------------------------
\* Text.  A JavaScript string is a sequence of fragments.  Every character the
\* code inspects (path separators, brackets, digits, quotes, the characters of
\* "should" and "(?:") is a fragment of its own; text the code only copies may
\* be one longer fragment.  Concatenation is \o, the empty string is << >>.
\* ---------------------------------------------------------------------------

Digits == {"0", "1", "2", "3", "4", "5", "6", "7", "8", "9"}

Quotes == {"'", "\""}

DigitValue(c) ==
    CASE c = "0" -> 0 [] c = "1" -> 1 [] c = "2" -> 2 [] c = "3" -> 3 [] c = "4" -> 4
      [] c = "5" -> 5 [] c = "6" -> 6 [] c = "7" -> 7 [] c = "8" -> 8 [] c = "9" -> 9

\* String.prototype.startsWith / endsWith with a one-character argument
startsWith(s, c) == Len(s) >= 1 /\ s[1] = c

endsWith(s, c) == Len(s) >= 1 /\ s[Len(s)] = c

\* s.substring(from) with a 0-based index
substringFrom(s, from) == SubSeq(s, from + 1, Len(s))

\* s.substring(from, to) with 0-based indices, to exclusive
substring(s, from, to) == SubSeq(s, from + 1, to)

\* whether p occurs in s starting at (1-based) position i
MatchesAt(s, i, p) == i + Len(p) - 1 <= Len(s) /\ SubSeq(s, i, i + Len(p) - 1) = p

\* the number of consecutive digits of s starting at position i
RECURSIVE DigitRun(_, _)
DigitRun(s, i) == IF i <= Len(s) /\ s[i] \in Digits THEN 1 + DigitRun(s, i + 1) ELSE 0

\* the number of consecutive characters other than "]" of s starting at position i
RECURSIVE NonCloseRun(_, _)
NonCloseRun(s, i) == IF i <= Len(s) /\ s[i] # "]" THEN 1 + NonCloseRun(s, i + 1) ELSE 0

\* parseInt(digits, 10) of a sequence of digits
RECURSIVE parseInt(_)
parseInt(ds) ==
    IF ds = << >> THEN 0
    ELSE 10 * parseInt(SubSeq(ds, 1, Len(ds) - 1)) + DigitValue(ds[Len(ds)])

\* String(n) for a natural number: its decimal digits
RECURSIVE NumText(_)
NumText(n) ==
    LET d == CHOOSE c \in Digits : DigitValue(c) = n % 10
    IN  IF n < 10 THEN <<d>> ELSE NumText(n \div 10) \o <<d>>

\* ---------------------------------------------------------------------------
\* JavaScript values: records tagged with their type.
\* ---------------------------------------------------------------------------

\* an object without properties
EmptyObject == [k \in {} |-> 0]

\* t is the type; n the number of a number, s the text of a string, a the
\* elements of an array, o the properties of an object (property name -> value)
Undefined == [t |-> "undefined", n |-> 0, s |-> << >>, a |-> << >>, o |-> EmptyObject]

Str(s) == [Undefined EXCEPT !.t = "string", !.s = s]

Num(n) == [Undefined EXCEPT !.t = "number", !.n = n]

Arr(a) == [Undefined EXCEPT !.t = "array", !.a = a]

Obj(f) == [Undefined EXCEPT !.t = "object", !.o = f]

\* !value
Falsy(x) ==
    \/ x.t = "undefined"
    \/ x.t = "string" /\ x.s = << >>
    \/ x.t = "number" /\ x.n = 0

\* `${x}` for a string or a number
TextOf(x) ==
    CASE x.t = "number" -> NumText(x.n)
      [] x.t = "undefined" -> <<"undefined">>
      [] OTHER -> x.s

\* target[n] for a number n
IndexOf(target, n) ==
    CASE target.t = "array" ->
            IF n + 1 \in DOMAIN target.a THEN target.a[n + 1] ELSE Undefined
      [] target.t = "string" ->
            IF n + 1 \in DOMAIN target.s THEN Str(<<target.s[n + 1]>>) ELSE Undefined
      [] target.t = "object" ->
            IF NumText(n) \in DOMAIN target.o THEN target.o[NumText(n)] ELSE Undefined
      [] OTHER -> Undefined

\* target[token] for a string token
PropertyOf(target, token) ==
    CASE target.t = "object" ->
            IF token \in DOMAIN target.o THEN target.o[token] ELSE Undefined
      [] target.t = "array" ->
            IF token # << >> /\ DigitRun(token, 1) = Len(token)
            THEN IndexOf(target, parseInt(token))
            ELSE IF token = <<"length">> THEN Num(Len(target.a)) ELSE Undefined
      [] target.t = "string" ->
            IF token = <<"length">> THEN Num(Len(target.s)) ELSE Undefined
      [] OTHER -> Undefined

\* ---------------------------------------------------------------------------
\* src/lib/utils.js
\* ---------------------------------------------------------------------------

\* String.prototype.trim
RECURSIVE trim(_)
trim(s) ==
    IF startsWith(s, " ") THEN trim(substringFrom(s, 1))
    ELSE IF endsWith(s, " ") THEN trim(SubSeq(s, 1, Len(s) - 1))
    ELSE s

\* path.split('.')
RECURSIVE split(_)
split(s) ==
    IF \E i \in 1..Len(s) : s[i] = "."
    THEN LET i == CHOOSE k \in 1..Len(s) : s[k] = "." /\ \A j \in 1..(k - 1) : s[j] # "."
         IN  <<SubSeq(s, 1, i - 1)>> \o split(SubSeq(s, i + 1, Len(s)))
    ELSE <<s>>

\* token.match(/^(\d+)|(?:\[(\d+)\])$/): the digits captured, << >> when there is no match.
\* The first alternative takes the leading digits of the token; the second one
\* takes the digits of a bracketed index that ends the token.
TokenIndex(token) ==
    IF DigitRun(token, 1) > 0 THEN SubSeq(token, 1, DigitRun(token, 1))
    ELSE IF \E i \in 1..Len(token) :
                /\ token[i] = "["
                /\ DigitRun(token, i + 1) > 0
                /\ i + DigitRun(token, i + 1) + 1 = Len(token)
                /\ token[Len(token)] = "]"
    THEN LET i == CHOOSE k \in 1..Len(token) :
                    /\ token[k] = "["
                    /\ DigitRun(token, k + 1) > 0
                    /\ k + DigitRun(token, k + 1) + 1 = Len(token)
                    /\ token[Len(token)] = "]"
         IN  SubSeq(token, i + 1, Len(token) - 1)
    ELSE << >>

\* the loop of get over the remaining tokens
RECURSIVE GetWalk(_, _)
GetWalk(target, tokens) ==
    IF tokens = << >> THEN target
    ELSE IF target.t = "undefined" THEN Undefined
    ELSE LET token == Head(tokens)
             index == TokenIndex(token)
         IN  GetWalk(IF index # << >> THEN IndexOf(target, parseInt(index))
                                      ELSE PropertyOf(target, token),
                     Tail(tokens))

get(target, path) == GetWalk(target, [i \in DOMAIN split(path) |-> trim(split(path)[i])])

\* ---------------------------------------------------------------------------
\* The formatter registry (validationMessagesFormatters) and niceJoin
\* ---------------------------------------------------------------------------

\* array.join(separator) for an array of texts
RECURSIVE join(_, _)
join(array, separator) ==
    IF array = << >> THEN << >>
    ELSE IF Len(array) = 1 THEN array[1]
    ELSE array[1] \o separator \o join(Tail(array), separator)

niceJoin(array, lastSeparator, separator) ==
    CASE Len(array) = 0 -> << >>
      [] Len(array) = 1 -> array[1]
      [] Len(array) = 2 -> join(array, lastSeparator)
      [] OTHER -> join(SubSeq(array, 1, Len(array) - 1), separator)
                    \o lastSeparator \o array[Len(array)]

missing == <<"must be present">>

unknown == <<"is not a valid property">>

uuid == <<"must be a valid GUID (UUID v4)">>

timestamp == <<"must be a valid ISO 8601 / RFC 3339 timestamp (example: 2018-07-06T12:34:56Z)">>

date == <<"must be a valid ISO 8601 / RFC 3339 date (example: 2018-07-06)">>

time == <<"must be a valid ISO 8601 / RFC 3339 time (example: 12:34:56)">>

hostname == <<"must be a valid hostname">>

ipv4 == <<"must be a valid IPv4">>

ipv6 == <<"must be a valid IPv6">>

presentString == <<"must be a non empty string">>

paramType(type) ==
    CASE type = Str(<<"integer">>) -> <<"must be a valid integer number">>
      [] type = Str(<<"number">>) -> <<"must be a valid number">>
      [] type = Str(<<"boolean">>) -> <<"must be a valid boolean (true or false)">>
      [] type = Str(<<"object">>) -> <<"must be a object">>
      [] type = Str(<<"array">>) -> <<"must be an array">>
      [] OTHER -> <<"must be a string">>

minimum(min) == <<"must be a number greater than or equal to ">> \o TextOf(min)

maximum(max) == <<"must be a number less than or equal to ">> \o TextOf(max)

minimumProperties(min) ==
    IF min = Num(1) THEN <<"cannot be a empty object">>
    ELSE <<"must be a object with at least ">> \o TextOf(min) \o <<" properties">>

maximumProperties(max) ==
    IF max = Num(0) THEN <<"must be a empty object">>
    ELSE <<"must be a object with at most ">> \o TextOf(max) \o <<" properties">>

minimumItems(min) ==
    IF min = Num(1) THEN <<"cannot be a empty array">>
    ELSE <<"must be an array with at least ">> \o TextOf(min) \o <<" items">>

maximumItems(max) ==
    IF max = Num(0) THEN <<"must be a empty array">>
    ELSE <<"must be an array with at most ">> \o TextOf(max) \o <<" items">>

\* values.map(f => `"${f}"`) joined by niceJoin with ' or '; values must be an array
enum(values) ==
    <<"must be one of the following values: ">>
        \o niceJoin([i \in DOMAIN values.a |-> <<"\"">> \o TextOf(values.a[i]) \o <<"\"">>],
                    <<" or ">>, <<", ">>)

\* s.replace(/\(\?\:/g, '(')
RECURSIVE StripNonCapturing(_)
StripNonCapturing(s) ==
    IF s = << >> THEN << >>
    ELSE IF MatchesAt(s, 1, <<"(", "?", ":">>)
         THEN <<"(">> \o StripNonCapturing(SubSeq(s, 4, Len(s)))
         ELSE <<s[1]>> \o StripNonCapturing(Tail(s))

pattern(p) == <<"must match pattern \"">> \o StripNonCapturing(p.s) \o <<"\"">>

invalidResponseCode(code) ==
    <<"This endpoint cannot respond with HTTP status ">> \o TextOf(code) \o <<".">>

invalidResponse(code) ==
    <<"The response returned from the endpoint violates its specification for the HTTP status ">>
        \o TextOf(code) \o <<".">>

invalidFormat(format) == <<"must match format \"">> \o TextOf(format) \o <<"\" (format)">>

\* the keys of the registry
FormatterKeys ==
    {"contentType", "json", "jsonEmpty", "missing", "unknown", "uuid", "timestamp", "date",
     "time", "hostname", "ipv4", "ipv6", "paramType", "presentString", "minimum", "maximum",
     "minimumProperties", "maximumProperties", "minimumItems", "maximumItems", "enum",
     "pattern", "invalidResponseCode", "invalidResponse", "invalidFormat"}

\* validationMessagesFormatters[key](arg)
validationMessagesFormatters(key, arg) ==
    CASE key = "contentType" ->
            <<"only JSON payloads are accepted. Please set the \"Content-Type\" header to start with \"application/json\"">>
      [] key = "json" -> <<"the body payload is not a valid JSON">>
      [] key = "jsonEmpty" ->
            <<"the JSON body payload cannot be empty if the \"Content-Type\" header is set">>
      [] key = "missing" -> missing
      [] key = "unknown" -> unknown
      [] key = "uuid" -> uuid
      [] key = "timestamp" -> timestamp
      [] key = "date" -> date
      [] key = "time" -> time
      [] key = "hostname" -> hostname
      [] key = "ipv4" -> ipv4
      [] key = "ipv6" -> ipv6
      [] key = "paramType" -> paramType(arg)
      [] key = "presentString" -> presentString
      [] key = "minimum" -> minimum(arg)
      [] key = "maximum" -> maximum(arg)
      [] key = "minimumProperties" -> minimumProperties(arg)
      [] key = "maximumProperties" -> maximumProperties(arg)
      [] key = "minimumItems" -> minimumItems(arg)
      [] key = "maximumItems" -> maximumItems(arg)
      [] key = "enum" -> enum(arg)
      [] key = "pattern" -> pattern(arg)
      [] key = "invalidResponseCode" -> invalidResponseCode(arg)
      [] key = "invalidResponse" -> invalidResponse(arg)
      [] key = "invalidFormat" -> invalidFormat(arg)

\* whether validationMessagesFormatters[key](arg) throws a TypeError:
\* enum calls values.map, pattern calls pattern.replace
FormatterThrows(key, arg) ==
    \/ key = "enum" /\ arg.t # "array"
    \/ key = "pattern" /\ arg.t # "string"

\* ---------------------------------------------------------------------------
\* convertValidationErrors.  A failure record e is
\* [keyword, dataPath, params, message]: keyword a string, dataPath and message
\* texts, params a record of JavaScript values.
\* ---------------------------------------------------------------------------

\* e.params[name]
Param(e, name) == IF name \in DOMAIN e.params THEN e.params[name] ELSE Undefined

\* "Normalize the key": the key before the switch
NormalizeKey(dataPath) ==
    LET key == IF startsWith(dataPath, ".") THEN substringFrom(dataPath, 1) ELSE dataPath
    IN  IF startsWith(key, "[") /\ endsWith(key, "]")
        THEN substring(key, 1, Len(key) - 1)
        ELSE key

\* the key after the switch, a JavaScript value
KeyOf(e) ==
    CASE e.keyword \in {"required", "dependencies"} -> Param(e, "missingProperty")
      [] e.keyword = "additionalProperties" -> Param(e, "additionalProperty")
      [] OTHER -> Str(NormalizeKey(e.dataPath))

\* case 'pattern'
PatternMessage(e, data) ==
    LET value == get(data, NormalizeKey(e.dataPath))
    IN  IF Param(e, "pattern") = Str(<<".", "+">>) /\ Falsy(value)
        THEN presentString
        ELSE pattern(Param(e, "pattern"))

\* case 'format': the reason after "Normalize the key"
FormatReason(e) ==
    IF Param(e, "format") = Str(<<"date-time">>) THEN Str(<<"timestamp">>) ELSE Param(e, "format")

\* the registry key validationMessagesFormatters[reason] || invalidFormat resolves
\* to, for a reason that names no member of Object.prototype
FormatKey(reason) ==
    IF \E k \in FormatterKeys : TextOf(reason) = <<k>>
    THEN CHOOSE k \in FormatterKeys : TextOf(reason) = <<k>>
    ELSE "invalidFormat"

FormatMessage(e) == validationMessagesFormatters(FormatKey(FormatReason(e)), FormatReason(e))

\* whether the switch throws for e
SwitchThrows(e) ==
    CASE e.keyword = "enum" -> FormatterThrows("enum", Param(e, "allowedValues"))
      [] e.keyword = "pattern" -> FormatterThrows("pattern", Param(e, "pattern"))
      [] e.keyword = "format" -> FormatterThrows(FormatKey(FormatReason(e)), FormatReason(e))
      [] OTHER -> FALSE

\* the message the switch leaves, << >> when no case applies
SwitchMessage(e, data) ==
    CASE e.keyword \in {"required", "dependencies"} -> missing
      [] e.keyword = "additionalProperties" -> unknown
      [] e.keyword = "type" -> paramType(Param(e, "type"))
      [] e.keyword = "minProperties" -> minimumProperties(Param(e, "limit"))
      [] e.keyword = "maxProperties" -> maximumProperties(Param(e, "limit"))
      [] e.keyword = "minItems" -> minimumItems(Param(e, "limit"))
      [] e.keyword = "maxItems" -> maximumItems(Param(e, "limit"))
      [] e.keyword = "minimum" -> minimum(Param(e, "limit"))
      [] e.keyword = "maximum" -> maximum(Param(e, "limit"))
      [] e.keyword = "enum" -> enum(Param(e, "allowedValues"))
      [] e.keyword = "pattern" -> PatternMessage(e, data)
      [] e.keyword = "format" -> FormatMessage(e)
      [] OTHER -> << >>

\* e.message.replace(/^should/, 'must')
ReplaceShould(m) ==
    IF MatchesAt(m, 1, <<"s", "h", "o", "u", "l", "d">>)
    THEN <<"m", "u", "s", "t">> \o SubSeq(m, 7, Len(m))
    ELSE m

\* "No custom message was found, default to input one"
FallbackMessage(e) == ReplaceShould(e.message) \o <<" (">> \o <<e.keyword>> \o <<")">>

MessageOf(e, data) ==
    IF SwitchMessage(e, data) = << >> THEN FallbackMessage(e) ELSE SwitchMessage(e, data)

\* key.replace(/\[(\d+)\]/g, '.$1')
RECURSIVE ReplaceArrayPath(_)
ReplaceArrayPath(s) ==
    IF s = << >> THEN << >>
    ELSE LET n == DigitRun(s, 2)
         IN  IF s[1] = "[" /\ n > 0 /\ n + 2 <= Len(s) /\ s[n + 2] = "]"
             THEN <<".">> \o SubSeq(s, 2, n + 1) \o ReplaceArrayPath(SubSeq(s, n + 3, Len(s)))
             ELSE <<s[1]>> \o ReplaceArrayPath(Tail(s))

\* key.replace(/\[([^\]]+)\]/g, '.$1')
RECURSIVE ReplaceObjectPath(_)
ReplaceObjectPath(s) ==
    IF s = << >> THEN << >>
    ELSE LET n == NonCloseRun(s, 2)
         IN  IF s[1] = "[" /\ n > 0 /\ n + 2 <= Len(s)
             THEN <<".">> \o SubSeq(s, 2, n + 1) \o ReplaceObjectPath(SubSeq(s, n + 3, Len(s)))
             ELSE <<s[1]>> \o ReplaceObjectPath(Tail(s))

\* property.match(/(?:^['"])(?:[^\.]+)(?:['"]$)/)
IsQuoted(s) ==
    /\ Len(s) >= 3
    /\ s[1] \in Quotes
    /\ s[Len(s)] \in Quotes
    /\ \A i \in 2..(Len(s) - 1) : s[i] # "."

\* "Find the property to add", "Remove useless quotes", "Fix empty properties"
FindProperty(key) ==
    LET replaced == ReplaceObjectPath(ReplaceArrayPath(key))
        unquoted == IF IsQuoted(replaced) THEN substring(replaced, 1, Len(replaced) - 1)
                                          ELSE replaced
    IN  IF unquoted = << >> THEN <<"$root">> ELSE unquoted

\* whether the loop body throws for e: in the switch, or at key.replace on a key
\* that is not a string
BodyThrows(e) == SwitchThrows(e) \/ KeyOf(e).t # "string"


\* an insertion that keeps the entry a property already has
SetError_KeepFirst(errors, property, message) ==
    [p \in DOMAIN errors \cup {property} |->
        IF p \in DOMAIN errors THEN errors[p] ELSE message]

\* errors[property] = message
SetError(errors, property, message) ==
    [p \in DOMAIN errors \cup {property} |-> IF p = property THEN message ELSE errors[p]]

\* the for loop over validationErrors, from the errors collected so far
RECURSIVE ConvertLoop(_, _, _)
ConvertLoop(errors, data, validationErrors) ==
    IF validationErrors = << >> THEN [threw |-> FALSE, errors |-> errors]
    ELSE LET e == Head(validationErrors)
         IN  IF BodyThrows(e) THEN [threw |-> TRUE, errors |-> << >>]
             ELSE ConvertLoop(SetError(errors, FindProperty(KeyOf(e).s), MessageOf(e, data)),
                              data, Tail(validationErrors))

\* section === 'querystring' ? 'query' : section
SectionName(section) == IF section = "querystring" THEN "query" ELSE section

\* the call's outcome: [threw |-> TRUE] when it raises a TypeError, else the
\* section and the property -> message mapping of { [section]: errors }
convertValidationErrors(section, data, validationErrors) ==
    LET r == ConvertLoop(<< >>, data, validationErrors)
    IN  [threw |-> r.threw,
         section |-> SectionName(section),
         errors |-> r.errors]

\* ---------------------------------------------------------------------------
\* The injected schema compiler: compile(schema) gives a validator that, called
\* on a payload, answers whether it is valid and records the failures of that
\* call on itself (validator.errors, null after a valid call).  A schema is
\* [type, required, properties, pattern, items]; all failures are collected.
\* ---------------------------------------------------------------------------

Should == <<"s", "h", "o", "u", "l", "d">>

Schema(type, required, properties, pat, items) ==
    [type |-> type, required |-> required, properties |-> properties,
     pattern |-> pat, items |-> items]

RECURSIVE Flatten(_)
Flatten(ss) == IF ss = << >> THEN << >> ELSE Head(ss) \o Flatten(Tail(ss))

\* whether a string matches the regular expression .+ : it holds a character
\* that is not a line terminator
MatchesAnything(str) == \E i \in DOMAIN str : str[i] # "\n"

\* the failure records of value against schema, value being at dataPath
RECURSIVE ValidateAt(_, _, _)
ValidateAt(schema, value, dataPath) ==
    IF value.t # schema.type
    THEN <<[keyword |-> "type", dataPath |-> dataPath,
            params |-> [type |-> Str(<<schema.type>>)],
            message |-> Should \o <<" be ", schema.type>>]>>
    ELSE CASE schema.type = "object" ->
                Flatten([i \in DOMAIN schema.required |->
                            IF schema.required[i] \in DOMAIN value.o THEN << >>
                            ELSE <<[keyword |-> "required", dataPath |-> dataPath,
                                    params |-> [missingProperty |-> Str(schema.required[i])],
                                    message |-> Should \o <<" have required property '">>
                                                    \o schema.required[i] \o <<"'">>]>>])
                \o Flatten([i \in DOMAIN schema.properties |->
                            LET prop == schema.properties[i]
                            IN  IF prop.key \in DOMAIN value.o
                                THEN ValidateAt(prop.schema, value.o[prop.key],
                                                dataPath \o <<".">> \o prop.key)
                                ELSE << >>])
           [] schema.type = "array" ->
                Flatten([i \in DOMAIN value.a |->
                            IF schema.items = << >> THEN << >>
                            ELSE ValidateAt(schema.items[1], value.a[i],
                                            dataPath \o <<"[">> \o NumText(i - 1) \o <<"]">>)])
           [] schema.type = "string" ->
                IF schema.pattern = << >> \/ MatchesAnything(value.s) THEN << >>
                ELSE <<[keyword |-> "pattern", dataPath |-> dataPath,
                        params |-> [pattern |-> Str(schema.pattern[1])],
                        message |-> Should \o <<" match pattern \"">> \o schema.pattern[1]
                                        \o <<"\"">>]>>
           [] OTHER -> << >>

\* validator(payload): the validator's state after the call
RunValidator(schema, payload) ==
    LET found == ValidateAt(schema, payload, << >>)
    IN  [valid |-> found = << >>, isNull |-> found = << >>, errors |-> found]

\* ---------------------------------------------------------------------------
\* Bounds and the values the model draws its inputs from
\* ---------------------------------------------------------------------------

MaxRequests == 2

MaxFailures == 2

INTERNAL_SERVER_ERROR == 500

StatusCodes == {200, 201, INTERNAL_SERVER_ERROR}

Name == <<"name">>

NameSchema == Schema("string", << >>, << >>, <<<<".", "+">>>>, << >>)

UserSchema == Schema("object", <<Name>>, <<[key |-> Name, schema |-> NameSchema]>>, << >>, << >>)

ListSchema == Schema("array", << >>, << >>, << >>, <<UserSchema>>)

\* route.schema.response of the routes: status code key -> schema; the first
\* route declares none
NoResponse == [declared |-> FALSE, response |-> EmptyObject]

Routes ==
    {NoResponse,
     [declared |-> TRUE, response |-> (<<"2", "0", "0">> :> UserSchema)],
     [declared |-> TRUE, response |-> (<<"2", "0", "0">> :> UserSchema)
                                        @@ (<<"5", "0", "0">> :> UserSchema)],
     [declared |-> TRUE, response |-> (<<"2", "0", "0">> :> ListSchema)
                                        @@ (<<"2", "x", "x">> :> UserSchema)]}

Payloads ==
    {Obj(Name :> Str(<<"b", "o", "b">>)),
     Obj(Name :> Str(<< >>)),
     Obj(EmptyObject),
     Arr(<<Obj(Name :> Str(<< >>)), Obj(EmptyObject)>>)}

\* The validator names the place of a failure by a raw path into the data it
\* validated: .name, [index] and ['key'] segments.  The segments of a raw path:
RECURSIVE Segments(_)
Segments(path) ==
    IF path = << >> THEN << >>
    ELSE IF path[1] = "." THEN
        LET n == CHOOSE k \in 1..Len(path) :
                    /\ \A j \in 2..k : path[j] \notin {".", "["}
                    /\ (k = Len(path) \/ path[k + 1] \in {".", "["})
        IN  <<[index |-> FALSE, text |-> SubSeq(path, 2, n)]>> \o Segments(SubSeq(path, n + 1, Len(path)))
    ELSE IF path[1] = "[" /\ Len(path) >= 2 /\ path[2] \in Quotes THEN
        LET n == CHOOSE k \in 3..Len(path) : path[k] \in Quotes /\ \A j \in 3..(k - 1) : path[j] \notin Quotes
        IN  <<[index |-> FALSE, text |-> SubSeq(path, 3, n - 1)]>> \o Segments(SubSeq(path, n + 2, Len(path)))
    ELSE LET n == DigitRun(path, 2)
         IN  <<[index |-> TRUE, text |-> SubSeq(path, 2, n + 1)]>> \o Segments(SubSeq(path, n + 3, Len(path)))

\* the value found in data by following a raw path segment by segment
RECURSIVE Follow(_, _)
Follow(value, segments) ==
    IF segments = << >> THEN value
    ELSE LET seg == Head(segments)
         IN  Follow(IF seg.index THEN IndexOf(value, parseInt(seg.text))
                                 ELSE PropertyOf(value, seg.text),
                    Tail(segments))

ValueAt(data, path) == Follow(data, Segments(path))

\* a failure record the validator can produce for data: a pattern failure is at
\* the path of a string of the data that does not match the pattern (the only
\* pattern whose matching the inputs decide is the sentinel .+)
Consistent(data, e) ==
    e.keyword = "pattern" =>
        /\ ValueAt(data, e.dataPath).t = "string"
        /\ e.params.pattern = Str(<<".", "+">>) => ~MatchesAnything(ValueAt(data, e.dataPath).s)

\* the failure records the normalizer is called with
F(keyword, dataPath, params, message) ==
    [keyword |-> keyword, dataPath |-> dataPath, params |-> params, message |-> message]

Failures ==
    {F("required", << >>, [missingProperty |-> Str(Name)],
       Should \o <<" have required property 'name'">>),
     F("additionalProperties", << >>, [additionalProperty |-> Str(Name)],
       Should \o <<" NOT have additional properties">>),
     F("pattern", <<".", "name">>, [pattern |-> Str(<<".", "+">>)],
       Should \o <<" match pattern \".+\"">>),
     F("pattern", <<".", "name">>, [pattern |-> Str(<<"^", "(", "?", ":", "a", "|", "b", ")", "$">>)],
       Should \o <<" match pattern \"^(?:a|b)$\"">>),
     F("pattern", <<".", "items", "[", "0", "]">>, [pattern |-> Str(<<".", "+">>)],
       Should \o <<" match pattern \".+\"">>),
     F("pattern", <<"[", "1", "]", "[", "0", "]">>, [pattern |-> Str(<<".", "+">>)],
       Should \o <<" match pattern \".+\"">>),
     F("pattern", <<"[", "'", "my-key", "'", "]">>, [pattern |-> Str(<<".", "+">>)],
       Should \o <<" match pattern \".+\"">>),
     F("type", <<"[", "2", "]", ".", "name">>, [type |-> Str(<<"integer">>)],
       Should \o <<" be integer">>),
     F("type", << >>, [type |-> Str(<<"object">>)], Should \o <<" be object">>),
     F("minItems", <<".", "items">>, [limit |-> Num(1)],
       Should \o <<" NOT have fewer than 1 items">>),
     F("maximum", <<".", "items", "[", "1", "2", "]">>, [limit |-> Num(10)],
       Should \o <<" be <= 10">>),
     F("enum", <<"[", "'", "my-key", "'", "]">>,
       [allowedValues |-> Arr(<<Str(<<"a">>), Str(<<"b">>), Str(<<"c">>)>>)],
       Should \o <<" be equal to one of the allowed values">>),
     F("format", <<".", "name">>, [format |-> Str(<<"date-time">>)],
       Should \o <<" match format \"date-time\"">>),
     F("format", << >>, [format |-> Str(<<"uuid">>)], Should \o <<" match format \"uuid\"">>),
     F("format", <<".", "name">>, [format |-> Str(<<"email">>)],
       Should \o <<" match format \"email\"">>),
     F("format", <<".", "name">>, [format |-> Str(<<"missing">>)],
       Should \o <<" match format \"missing\"">>),
     F("format", <<".", "name">>, [format |-> Str(<<"enum">>)],
       Should \o <<" match format \"enum\"">>),
     F("const", <<".", "name">>, [allowedValue |-> Str(<<"x">>)],
       Should \o <<" be equal to constant">>)}

\* the input data the normalizer is called with
Datas ==
    {Obj((Name :> Str(<< >>)) @@ (<<"items">> :> Arr(<<Str(<<"\n">>)>>))),
     Obj((Name :> Str(<<"b", "o", "b">>)) @@ (<<"items">> :> Arr(<<Str(<< >>)>>))
            @@ (<<"my-key">> :> Str(<<"\n">>))),
     Arr(<<Str(<<"x">>), Arr(<<Str(<< >>)>>)>>)}

Sections == {"querystring", "body"}

\* the sequences over S of length at most n
RECURSIVE SeqsUpTo(_, _)
SeqsUpTo(S, n) ==
    IF n = 0 THEN {<< >>}
    ELSE SeqsUpTo(S, n - 1) \cup {Append(q, e) : q \in {q \in SeqsUpTo(S, n - 1) : Len(q) = n - 1}, e \in S}

\* ---------------------------------------------------------------------------
\* State
\* ---------------------------------------------------------------------------

VARIABLES
    route,          \* the route handed to addResponseValidation
    registered,     \* whether addResponseValidation has run on the route
    hook,           \* whether route.preSerialization is installed
    validators,     \* the closure's table: status code key -> compiled schema
    validatorState, \* per key, the compiled validator's own state (validator.errors)
    validatorCalls, \* how many times a compiled validator has been called
    requests,       \* per request: pc, statusCode, payload, outcome
    call,           \* a call of convertValidationErrors: its arguments
    result          \* and its outcome, once it has run

vars == <<route, registered, hook, validators, validatorState, validatorCalls, requests,
          call, result>>

guardVars == <<route, registered, hook, validators, validatorState, validatorCalls, requests>>

Requests == 1..MaxRequests

NoOutcome ==
    [kind |-> "none", value |-> Undefined, status |-> 0, message |-> << >>,
     hasFailedValidations |-> FALSE, failedValidations |-> << >>]

\* return payload
Returned(payload) == [NoOutcome EXCEPT !.kind = "returned", !.value = payload]

\* throw createError(status, message)
Thrown(status, message) ==
    [NoOutcome EXCEPT !.kind = "thrown", !.status = status, !.message = message]

\* throw createError(status, message, { failedValidations })
ThrownWith(status, message, failedValidations) ==
    [NoOutcome EXCEPT !.kind = "thrown", !.status = status, !.message = message,
                      !.hasFailedValidations = TRUE, !.failedValidations = <<failedValidations>>]

\* a TypeError raised inside the guard
TypeError == [NoOutcome EXCEPT !.kind = "typeerror"]

NoCall == [pending |-> FALSE, section |-> "", data |-> Undefined, validationErrors |-> << >>]

NoResult == [done |-> FALSE, threw |-> FALSE, section |-> "", errors |-> << >>]

IdleRequest == [pc |-> "idle", statusCode |-> 0, payload |-> Undefined, outcome |-> NoOutcome]

GuardIdle ==
    /\ route = NoResponse
    /\ registered = FALSE
    /\ hook = FALSE
    /\ validators = EmptyObject
    /\ validatorState = EmptyObject
    /\ validatorCalls = 0
    /\ requests = [r \in Requests |-> IdleRequest]

\* a route is about to be registered, no request has been served
Init ==
    /\ route \in Routes
    /\ registered = FALSE
    /\ hook = FALSE
    /\ validators = EmptyObject
    /\ validatorState = EmptyObject
    /\ validatorCalls = 0
    /\ requests = [r \in Requests |-> IdleRequest]
    /\ call = NoCall
    /\ result = NoResult

\* ---------------------------------------------------------------------------
\* The response contract enforcer
\* ---------------------------------------------------------------------------

\* addResponseValidation(route)
addResponseValidation ==
    /\ ~registered
    /\ registered' = TRUE
    /\ IF ~route.declared
       THEN UNCHANGED <<hook, validators, validatorState>>
       ELSE /\ validators' = route.response
            /\ validatorState' = [k \in DOMAIN route.response |->
                                    [valid |-> FALSE, isNull |-> TRUE, errors |-> << >>]]
            /\ hook' = TRUE
    /\ UNCHANGED <<route, validatorCalls, requests, call, result>>

\* the route's handler has computed a reply: a status code and a payload
Reply(r) ==
    /\ registered
    /\ requests[r].pc = "idle"
    /\ \E statusCode \in StatusCodes, payload \in Payloads :
          requests' = [requests EXCEPT ![r] = [pc |-> "replying", statusCode |-> statusCode,
                                               payload |-> payload, outcome |-> NoOutcome]]
    /\ UNCHANGED <<route, registered, hook, validators, validatorState, validatorCalls,
                   call, result>>


\* the failures read from the validator as it was before this invocation's call
ValidatorErrors_Stale(state, key) == validatorState[key].errors

\* validator.errors as read after the call of the validator
ValidatorErrors(state, key) == state[key].errors


\* the guard reporting its failures under the request body's section
GuardSection_Body == "body"

\* the section the guard hands to convertValidationErrors
GuardSection == "response"


\* a guard that validates internal errors too
IsBypassed_Never(statusCode) == FALSE

\* "Never validate error 500"
IsBypassed(statusCode) == statusCode = INTERNAL_SERVER_ERROR

\* the guard's result when the status code is the internal-error code
BypassOutcome(payload) == Returned(payload)


\* the undeclared-status failure carrying the invalid-response message instead
UndeclaredOutcome_WrongMessage(statusCode) ==
    Thrown(INTERNAL_SERVER_ERROR, invalidResponse(Num(statusCode)))

\* the guard's result when no validator is compiled for the status code
UndeclaredOutcome(statusCode) ==
    Thrown(INTERNAL_SERVER_ERROR, invalidResponseCode(Num(statusCode)))


\* a guard that forgets to return the payload it accepted
ValidOutcome_NoReturn(payload) == Returned(Undefined)

\* the guard's result when the validator accepts the payload
ValidOutcome(payload) == Returned(payload)

\* the guard's result when the validator rejects the payload
InvalidOutcome(statusCode, payload, errors) ==
    LET failedValidations == convertValidationErrors(GuardSection, payload, errors)
    IN  IF failedValidations.threw THEN TypeError
        ELSE ThrownWith(INTERNAL_SERVER_ERROR, invalidResponse(Num(statusCode)),
                        failedValidations)

\* route.preSerialization(request, reply, payload): the function has no await,
\* so one invocation runs from its first statement to its return or throw
\* without another invocation in between
preSerialization(r) ==
    LET statusCode == requests[r].statusCode
        payload == requests[r].payload
        key == NumText(statusCode)
        finish(outcome) ==
            requests' = [requests EXCEPT ![r].pc = "done", ![r].outcome = outcome]
    IN  /\ hook
        /\ requests[r].pc = "replying"
        /\ IF IsBypassed(statusCode)
           THEN /\ finish(BypassOutcome(payload))
                /\ UNCHANGED <<validatorState, validatorCalls>>
           ELSE IF key \notin DOMAIN validators
           THEN /\ finish(UndeclaredOutcome(statusCode))
                /\ UNCHANGED <<validatorState, validatorCalls>>
           ELSE /\ validatorState' =
                      [validatorState EXCEPT ![key] = RunValidator(validators[key], payload)]
                /\ validatorCalls' = validatorCalls + 1
                /\ IF validatorState'[key].valid
                   THEN finish(ValidOutcome(payload))
                   ELSE finish(InvalidOutcome(statusCode, payload,
                                              ValidatorErrors(validatorState', key)))
        /\ UNCHANGED <<route, registered, hook, validators, call, result>>

\* a route without response schemas has no guard: the reply goes out as it is
Serialize(r) ==
    /\ registered
    /\ ~hook
    /\ requests[r].pc = "replying"
    /\ requests' = [requests EXCEPT ![r].pc = "done", ![r].outcome = Returned(requests[r].payload)]
    /\ UNCHANGED <<route, registered, hook, validators, validatorState, validatorCalls,
                   call, result>>

Next ==
    \/ addResponseValidation
    \/ \E r \in Requests : Reply(r)
    \/ \E r \in Requests : preSerialization(r)
    \/ \E r \in Requests : Serialize(r)

Spec == Init /\ [][Next]_vars

\* ---------------------------------------------------------------------------
\* The normalizer called on its own
\* ---------------------------------------------------------------------------

InitNorm ==
    /\ GuardIdle
    /\ \E section \in Sections, data \in Datas, validationErrors \in SeqsUpTo(Failures, MaxFailures) :
          /\ \A i \in DOMAIN validationErrors : Consistent(data, validationErrors[i])
          /\ call = [pending |-> TRUE, section |-> section, data |-> data,
                     validationErrors |-> validationErrors]
    /\ result = NoResult

Convert ==
    /\ call.pending
    /\ ~result.done
    /\ LET r == convertValidationErrors(call.section, call.data, call.validationErrors)
       IN  result' = [done |-> TRUE, threw |-> r.threw, section |-> r.section, errors |-> r.errors]
    /\ UNCHANGED <<guardVars, call>>

NextNorm == Convert

SpecNorm == InitNorm /\ [][NextNorm]_vars

\* ---------------------------------------------------------------------------
\* Properties of the response contract enforcer (under Spec)
\* ---------------------------------------------------------------------------

Served(r) == hook /\ requests[r].pc = "done"

HasValidator(r) == NumText(requests[r].statusCode) \in DOMAIN validators

\* the failure records the validator compiled for r's status code produces for r's payload
OwnFailures(r) ==
    ValidateAt(validators[NumText(requests[r].statusCode)], requests[r].payload, << >>)

\* C1: on a route with response schemas, a guard invocation whose status code is
\* not 500 and has no compiled validator fails the request with a 500 failure
\* whose message is the invalidResponseCode message naming that status code, and
\* the payload is not returned.
C1_UndeclaredStatusFails ==
    \A r \in Requests :
        (Served(r) /\ requests[r].statusCode # 500 /\ ~HasValidator(r)) =>
            /\ requests[r].outcome.kind = "thrown"
            /\ requests[r].outcome.status = 500
            /\ requests[r].outcome.message =
                  <<"This endpoint cannot respond with HTTP status ">>
                      \o NumText(requests[r].statusCode) \o <<".">>
            /\ ~requests[r].outcome.hasFailedValidations
            /\ requests[r].outcome.value = Undefined

C1_Witness ==
    \E r \in Requests :
        /\ Served(r) /\ requests[r].statusCode = 201 /\ ~HasValidator(r)
        /\ requests[r].outcome.kind = "thrown"

\* C2: a guard invocation with status code 500 returns the payload unchanged and
\* calls no compiled validator, whatever the payload and the route's table, also
\* when the table declares a schema for 500.
C2_InternalErrorBypass ==
    [][\A r \in Requests :
          (hook /\ requests[r].pc = "replying" /\ requests[r].statusCode = 500
                /\ requests'[r].pc = "done") =>
              /\ requests'[r].outcome = Returned(requests[r].payload)
              /\ validatorCalls' = validatorCalls
              /\ validatorState' = validatorState]_vars

C2_Witness ==
    \E r \in Requests :
        /\ Served(r) /\ requests[r].statusCode = 500 /\ HasValidator(r)
        /\ OwnFailures(r) # << >>
        /\ requests[r].outcome.kind = "returned"

\* C3: when a validator is compiled for the (non-500) status code and rejects the
\* payload, the request fails with a 500 failure whose message is the
\* invalidResponse message naming the status code and whose failedValidations is
\* the normalizer's result for section "response", that payload and exactly the
\* failure records the validator produced for that payload.
C3_InvalidResponseFails ==
    \A r \in Requests :
        (Served(r) /\ requests[r].statusCode # 500 /\ HasValidator(r)
                   /\ OwnFailures(r) # << >>) =>
            /\ requests[r].outcome.kind = "thrown"
            /\ requests[r].outcome.status = 500
            /\ requests[r].outcome.message =
                  <<"The response returned from the endpoint violates its specification for the HTTP status ">>
                      \o NumText(requests[r].statusCode) \o <<".">>
            /\ requests[r].outcome.hasFailedValidations
            /\ requests[r].outcome.failedValidations =
                  <<convertValidationErrors("response", requests[r].payload, OwnFailures(r))>>

C3_Witness ==
    \E r \in Requests :
        /\ Served(r) /\ requests[r].statusCode = 200 /\ HasValidator(r)
        /\ Len(OwnFailures(r)) = 2
        /\ requests[r].outcome.hasFailedValidations

\* C4: when the validator compiled for the status code accepts the payload the
\* guard does not fail and returns the payload it was given; whenever the guard
\* returns a value it is the unmodified payload; the route's validator table is
\* left unchanged by every invocation.
C4_PassThrough ==
    [][\A r \in Requests :
          (hook /\ requests[r].pc = "replying" /\ requests'[r].pc = "done") =>
              /\ validators' = validators
              /\ requests'[r].payload = requests[r].payload
              /\ requests'[r].outcome.kind = "returned" =>
                    requests'[r].outcome.value = requests[r].payload
              /\ (requests[r].statusCode # 500 /\ HasValidator(r) /\ OwnFailures(r) = << >>) =>
                    requests'[r].outcome = Returned(requests[r].payload)]_vars

C4_Witness ==
    \E r \in Requests :
        /\ Served(r) /\ requests[r].statusCode = 200 /\ HasValidator(r)
        /\ OwnFailures(r) = << >>
        /\ requests[r].outcome = Returned(requests[r].payload)

\* the kind of outcome and the failure detail that r's own status code and payload determine
OwnOutcome(r) ==
    IF requests[r].statusCode = 500 THEN <<"pass", << >>>>
    ELSE IF ~HasValidator(r) THEN <<"undeclared", << >>>>
    ELSE IF OwnFailures(r) = << >> THEN <<"pass", << >>>>
    ELSE <<"invalid", <<convertValidationErrors("response", requests[r].payload, OwnFailures(r))>>>>

\* the kind of outcome and the failure detail the guard produced for r
ActualOutcome(r) ==
    CASE requests[r].outcome.kind = "returned" -> <<"pass", << >>>>
      [] requests[r].outcome.kind = "thrown" /\ ~requests[r].outcome.hasFailedValidations ->
            <<"undeclared", << >>>>
      [] requests[r].outcome.kind = "thrown" /\ requests[r].outcome.hasFailedValidations ->
            <<"invalid", requests[r].outcome.failedValidations>>
      [] OTHER -> <<"error", << >>>>

\* C5: under every interleaving of the guard invocations of concurrent requests on
\* one route, which share one validator per status code, each invocation's outcome
\* (pass, undeclared status, or invalid response with its failedValidations) is
\* determined by its own status code and payload: the failure records it reports
\* are those of its own payload, never those left by another request.
C5_OutcomeIsLocal ==
    \A r \in Requests : Served(r) => ActualOutcome(r) = OwnOutcome(r)

C5_Witness ==
    \E r1, r2 \in Requests :
        /\ r1 # r2 /\ Served(r1) /\ Served(r2)
        /\ requests[r1].statusCode = requests[r2].statusCode
        /\ requests[r1].statusCode # 500
        /\ HasValidator(r1)
        /\ OwnFailures(r1) # << >> /\ OwnFailures(r2) # << >>
        /\ OwnFailures(r1) # OwnFailures(r2)
        /\ ActualOutcome(r1)[1] = "invalid" /\ ActualOutcome(r2)[1] = "invalid"

\* ---------------------------------------------------------------------------
\* Properties of the normalizer (under SpecNorm)
\* ---------------------------------------------------------------------------

\* the call has returned (it did not throw)
Normalized == result.done /\ ~result.threw

\* the final property path and the message of the i-th failure of the call
PropertyAt(i) == FindProperty(KeyOf(call.validationErrors[i]).s)

MessageAt(i) == MessageOf(call.validationErrors[i], call.data)

\* C6: each final property path appears at most once in the output section; its
\* message is the one computed for the last failure, in input order, that resolves
\* to that path; the output has as many entries as the failures have distinct
\* final property paths.
C6_LastWriteWins ==
    Normalized =>
        LET n == Len(call.validationErrors)
            paths == {PropertyAt(i) : i \in 1..n}
            last(p) == CHOOSE i \in 1..n :
                          PropertyAt(i) = p /\ \A j \in (i + 1)..n : PropertyAt(j) # p
        IN  /\ DOMAIN result.errors = paths
            /\ Cardinality(DOMAIN result.errors) = Cardinality(paths)
            /\ \A p \in paths : result.errors[p] = MessageAt(last(p))

C6_Witness ==
    /\ Normalized
    /\ Len(call.validationErrors) = 2
    /\ PropertyAt(1) = PropertyAt(2)
    /\ MessageAt(1) # MessageAt(2)
    /\ result.errors[PropertyAt(1)] = MessageAt(2)

\* the dotted property path of a raw path: its segments joined by dots, $root when empty
DottedPath(path) ==
    IF path = << >> THEN <<"$root">>
    ELSE join([i \in DOMAIN Segments(path) |-> Segments(path)[i].text], <<".">>)

KeyFromParams == {"required", "dependencies", "additionalProperties"}

\* C7: a failure whose kind keeps its key, at raw path [2].name with section body,
\* yields the property key 2.name under the body section; one at the empty raw
\* path yields $root; in general the bracketed numeric indices of the raw path
\* become dot-separated segments of a dotted property path.
C7_PathNormalization ==
    (Normalized /\ Len(call.validationErrors) = 1
                /\ call.validationErrors[1].keyword \notin KeyFromParams) =>
        LET path == call.validationErrors[1].dataPath
        IN  /\ (path = <<"[", "2", "]", ".", "name">> /\ call.section = "body") =>
                    (result.section = "body" /\ DOMAIN result.errors = {<<"2", ".", "name">>})
            /\ path = << >> => DOMAIN result.errors = {<<"$root">>}
            /\ DOMAIN result.errors = {DottedPath(path)}

\* the registry keys that are failure kinds of their own, not formats
Dedicated == {"uuid", "timestamp", "date", "time", "hostname", "ipv4", "ipv6"}

Handled ==
    {"required", "dependencies", "additionalProperties", "type", "minProperties",
     "maxProperties", "minItems", "maxItems", "minimum", "maximum", "enum", "pattern", "format"}

\* C8: the normalizer never raises an error and every failure record yields a
\* non-empty message: for a kind that is not handled, the failure's generic message
\* with a leading "should" replaced by "must", followed by the kind in parentheses;
\* for a handled kind the formatter's message, without the fallback.
C8_NeverRaises ==
    result.done =>
        /\ ~result.threw
        /\ \A p \in DOMAIN result.errors : result.errors[p] # << >>
        /\ Len(call.validationErrors) = 1 =>
              LET e == call.validationErrors[1]
                  m == result.errors[PropertyAt(1)]
              IN  IF e.keyword \in Handled
                  THEN m = SwitchMessage(e, call.data)
                  ELSE m = <<"m", "u", "s", "t">> \o SubSeq(e.message, 7, Len(e.message))
                              \o <<" (", e.keyword, ")">>

\* C9: for a format failure the format name is normalized (date-time becomes
\* timestamp); a dedicated format (uuid, timestamp, date, time, hostname, ipv4,
\* ipv6) gets its dedicated message and every other format name gets the
\* invalidFormat message built from that name.
C9_FormatMessage ==
    (result.done /\ Len(call.validationErrors) = 1
                 /\ call.validationErrors[1].keyword = "format") =>
        LET given == call.validationErrors[1].params.format.s
            name == IF given = <<"date-time">> THEN <<"timestamp">> ELSE given
        IN  /\ ~result.threw
            /\ result.errors[PropertyAt(1)] =
                  IF \E k \in Dedicated : name = <<k>>
                  THEN validationMessagesFormatters(CHOOSE k \in Dedicated : name = <<k>>, Undefined)
                  ELSE <<"must match format \"">> \o name \o <<"\" (format)">>

====
